---- MODULE Spec2Model ----
(***************************************************************************)
(* Model of android.py: the Interrogator (three generated NDK project      *)
(* files in a scratch directory, the memoising setters, the lazy question  *)
(* generator) and the interrogate scope that owns the scratch directory.   *)
(***************************************************************************)
EXTENDS Naturals, Sequences, FiniteSets

(***************************************************************************)
(* Bounds of the model.                                                    *)
(***************************************************************************)
\* setter / question calls the caller makes inside one scope
MaxOps == 2
\* length of the captured make output explored by SpecParse
MaxOutLen == 5

(***************************************************************************)
(* Class constants (android.py lines 19-24).                               *)
(***************************************************************************)
STATIC_LIBRARY == "BUILD_STATIC_LIBRARY"
SHARED_LIBRARY == "BUILD_SHARED_LIBRARY"
EXECUTABLE == "BUILD_EXECUTABLE"
BUILD_TYPES == {STATIC_LIBRARY, SHARED_LIBRARY, EXECUTABLE}
MODULE_NAME == "InterrogateActivity"

\* the value of an unset attribute (Python's None) for build_type
NoType == "None"
\* a build type outside the enumeration that a caller may pass
BadType == "BUILD_PACKAGE"
ArgTypes == BUILD_TYPES \cup {BadType}

(***************************************************************************)
(* Variable mappings.  A mapping argument is None or a dict; a dict is the *)
(* set of its (name, value) items.  NonAsciiName is a unicode name that    *)
(* cStringIO cannot encode, so rendering a dict that holds it raises.      *)
(* The order in which a dict is iterated is not a function of its items    *)
(* (it depends on the hash seed and on the insertion history of the dict   *)
(* object), so every rendering takes one of the orders of IterOrders.      *)
(***************************************************************************)
None == [isNone |-> TRUE, items |-> {}]
Dict(items) == [isNone |-> FALSE, items |-> items]
NonAsciiName == "N_e_acute"
VarMaps ==
    { Dict({}),
      Dict({<<"N1", "v2">>, <<"N2", "v1">>}),
      Dict({<<NonAsciiName, "v1">>}) }
ArgVars == {None} \cup VarMaps

\* Python truthiness of a mapping argument: `if self.android_vars:`
Truthy(v) == ~v.isNone /\ v.items # {}

\* the value stored under name in dict v: self.android_vars[name]
Lookup(v, name) == (CHOOSE it \in v.items : it[1] = name)[2]

\* the keys of a dict
Names(v) == {it[1] : it \in v.items}

\* the orders `for name in vars` can take: every arrangement of the keys
IterOrders(v) ==
    {o \in [1..Cardinality(Names(v)) -> Names(v)] :
        \A n \in Names(v) : \E i \in 1..Cardinality(Names(v)) : o[i] = n}

\* `for name in vars: write('%s := %s\n' % (name, vars[name]))`:
\* the assignment lines, in the order the dict is iterated
AssignLines(v, order) ==
    IF Truthy(v)
    THEN [i \in 1..Len(order) |-> <<order[i], Lookup(v, order[i])>>]
    ELSE <<>>

\* cStringIO.write raises UnicodeEncodeError on a non-ASCII unicode line
RenderRaises(v) == Truthy(v) /\ \E it \in v.items : it[1] = NonAsciiName

(***************************************************************************)
(* The file system under the scratch directory.                            *)
(***************************************************************************)
\* A file is its text in units: the fixed head, the assignment lines, and
\* the closing include line (absent from Application.mk).  A file whose
\* write failed holds a prefix of the text: some whole units and, when frag
\* is set, a broken piece of the unit after them.
Absent == [state |-> "absent", preamble |-> "", assigns |-> <<>>,
           include |-> "", frag |-> FALSE]

\* the Makefile text: a function of the NDK path and MODULE (lines 36-66)
MakefileText(ndk) ==
    [state |-> "written", preamble |-> MODULE_NAME, assigns |-> <<>>,
     include |-> ndk, frag |-> FALSE]

\* the Android.mk text (lines 92-102)
AndroidMk(bt, v, order) ==
    [state |-> "written", preamble |-> MODULE_NAME,
     assigns |-> AssignLines(v, order), include |-> bt, frag |-> FALSE]

\* the Application.mk text (lines 112-117)
ApplicationMk(v, order) ==
    [state |-> "written", preamble |-> "# Application.mk",
     assigns |-> AssignLines(v, order), include |-> "", frag |-> FALSE]

\* number of units of a text
Units(contents) ==
    1 + Len(contents.assigns) + (IF contents.include = "" THEN 0 ELSE 1)

\* what is on disk when only part of the text got there: the first kept
\* units (fewer than all of them) and, with frag, a piece of the next one
Prefix(contents, kept, frag) ==
    LET k == IF kept < Units(contents) THEN kept ELSE Units(contents) - 1
        n == IF k = 0 THEN 0
             ELSE IF k - 1 < Len(contents.assigns) THEN k - 1
             ELSE Len(contents.assigns)
    IN  [state |-> "partial",
         preamble |-> IF k = 0 THEN "" ELSE contents.preamble,
         assigns |-> SubSeq(contents.assigns, 1, n),
         include |-> "", frag |-> frag]

NoDir == [dir |-> FALSE, jni |-> FALSE,
          Makefile |-> Absent, Android |-> Absent, Application |-> Absent]

\* tempfile.mkdtemp(): a fresh empty directory
mkdtemp == [NoDir EXCEPT !.dir = TRUE]

\* the room is left on disk
rmtree_skipped(f) == f

\* shutil.rmtree(path)
rmtree(f) == NoDir

\* the paths the setters write, relative to the room (lines 103 and 118)
AndroidPath_copied == "Application"
AndroidPath == "Android"
ApplicationPath == "Application"

\* What the operating system can do to create_file: nothing; fail
\* os.makedirs; fail open(); let the text reach the disk only in part ("short":
\* fout.write raises, or the flush when the with block closes the file does);
\* or fail the close itself after all of the text was flushed.
NoFault == [at |-> "none", kept |-> 0, frag |-> FALSE]
FaultsOf(contents) ==
    {NoFault}
    \cup {[at |-> a, kept |-> 0, frag |-> FALSE] : a \in {"makedirs", "open", "close"}}
    \cup {[at |-> "short", kept |-> k, frag |-> b] :
             k \in 0..(Units(contents) - 1), b \in BOOLEAN}

\* create_file(path, contents) for path = room/<file>; inJni tells whether the
\* parent directory is room/jni.  Returns the file system, the exception
\* raised ("none" if none) and whether the file was opened for writing.
create_file(f, file, inJni, contents, fault) ==
    IF inJni /\ ~f.jni /\ fault.at = "makedirs"
    THEN [fs |-> f, exc |-> "OSError", wrote |-> {}]
    ELSE LET g == IF inJni THEN [f EXCEPT !.jni = TRUE] ELSE f
         IN  IF fault.at = "open"
             THEN [fs |-> g, exc |-> "IOError", wrote |-> {}]
             ELSE IF fault.at = "short"
             THEN [fs |-> [g EXCEPT ![file] =
                              Prefix(contents, fault.kept, fault.frag)],
                   exc |-> "IOError", wrote |-> {file}]
             ELSE [fs |-> [g EXCEPT ![file] = contents],
                   exc |-> IF fault.at = "close" THEN "IOError" ELSE "none",
                   wrote |-> {file}]

(***************************************************************************)
(* Parsing of the captured make output (question, lines 78-81).  Text is a *)
(* sequence of characters.                                                 *)
(***************************************************************************)
NL == "\n"
\* the characters str.strip() removes, among those of the model
Whitespace == {" ", NL}
Chars == {"A", "=", " ", NL}

\* index of the first c in s, 0 if there is none
RECURSIVE IndexFrom(_, _, _)
IndexFrom(s, c, i) ==
    IF i > Len(s) THEN 0
    ELSE IF s[i] = c THEN i
    ELSE IndexFrom(s, c, i + 1)
IndexOf(s, c) == IndexFrom(s, c, 1)

\* iteration of StringIO(output): the next line, its newline included
ReadLine(rest) ==
    LET n == IndexOf(rest, NL)
    IN  IF n = 0 THEN rest ELSE SubSeq(rest, 1, n)
AfterLine(rest) == SubSeq(rest, Len(ReadLine(rest)) + 1, Len(rest))

\* str.lstrip() and str.rstrip()
RECURSIVE LStrip(_)
LStrip(s) ==
    IF s # <<>> /\ Head(s) \in Whitespace THEN LStrip(Tail(s)) ELSE s
RECURSIVE RStrip(_)
RStrip(s) ==
    IF s # <<>> /\ s[Len(s)] \in Whitespace
    THEN RStrip(SubSeq(s, 1, Len(s) - 1))
    ELSE s
\* lstrip() written for strip()
Strip_left_only(s) == LStrip(s)

\* str.strip()
Strip(s) == RStrip(LStrip(s))

\* line.split('=', 1): the parts before and after the first '='
SplitName(line) == SubSeq(line, 1, IndexOf(line, "=") - 1)
SplitValue(line) == SubSeq(line, IndexOf(line, "=") + 1, Len(line))

\* one line of the loop body: the pair yielded for the line
ParseLine(line) == <<SplitName(line), Strip(SplitValue(line))>>

\* the generator object of question after make returned
NoGen == [state |-> "none", output |-> <<>>, rest |-> <<>>]
Captured(output) == [state |-> "captured", output |-> output, rest |-> output]

\* resume the generator up to its next yield, its end (StopIteration) or the
\* ValueError of unpacking a line without '='
Advance(g, ys) ==
    IF g.rest = <<>>
    THEN [gen |-> [g EXCEPT !.state = "done"], yielded |-> ys, exc |-> "none"]
    ELSE LET line == ReadLine(g.rest)
         IN  IF IndexOf(line, "=") = 0
             THEN [gen |-> [g EXCEPT !.state = "raised", !.rest = AfterLine(g.rest)],
                   yielded |-> ys, exc |-> "ValueError"]
             ELSE [gen |-> [g EXCEPT !.state = "suspended",
                                     !.rest = AfterLine(g.rest)],
                   yielded |-> Append(ys, ParseLine(line)), exc |-> "none"]

(***************************************************************************)
(* State.                                                                  *)
(***************************************************************************)
VARIABLES
    scope,             \* "outside", "inside" or "left" the `with interrogate`
    android_ndk,       \* the NDK path given to interrogate
    fs,                \* the scratch directory (interrogate_room) on disk
    build_type,        \* Interrogator.build_type
    android_vars,      \* Interrogator.android_vars
    application_vars,  \* Interrogator.application_vars
    pc,                \* where the body of a resumed question stands
    gen,               \* the generator returned by the latest question
    yielded,           \* the pairs that generator has yielded so far
    err,               \* the exception the latest call raised to the caller
    surfaced,          \* the exception that left the scope with the caller
    last,              \* the latest call: its arguments and what it did
    ran,               \* the setters that have been entered so far
    nops               \* number of setter / question calls made so far

vars == <<scope, android_ndk, fs, build_type, android_vars, application_vars,
          pc, gen, yielded, err, surfaced, last, ran, nops>>

\* NDK paths the caller may give and the ones os.path.exists() finds
NdkPaths == {"/opt/android-ndk", "/missing"}
ExistingPaths == {"/opt/android-ndk"}

\* what `make interrogate` can do: fail, or print one of these outputs
WellFormedOutput == <<"A", "=", " ", "A", NL>>
MalformedOutput == <<"A", NL>>
MakeOutcomes == {"fail", "well-formed", "malformed"}
OutputOf(mk) == IF mk = "well-formed" THEN WellFormedOutput ELSE MalformedOutput

\* the record of a call: the operation, the build type asked for, whether
\* the mapping arguments were None, whether a non-empty android_vars was
\* stored when set_android_vars was entered, the statement that raised ("ok"
\* if none), how often make ran and which files were opened for writing
NoCall == [op |-> "none", bt |-> NoType, avNone |-> TRUE, pvNone |-> TRUE,
           hadVars |-> FALSE, stage |-> "ok", makeRuns |-> 0, wrote |-> {}]

Init ==
    /\ scope = "outside"
    /\ android_ndk \in NdkPaths
    /\ fs = NoDir
    /\ build_type = NoType
    /\ android_vars = None
    /\ application_vars = None
    /\ pc = "idle"
    /\ gen = NoGen
    /\ yielded = <<>>
    /\ err = "none"
    /\ surfaced = "none"
    /\ last = NoCall
    /\ ran = {}
    /\ nops = 0

(***************************************************************************)
(* Interrogator.__init__ (lines 26-67) run in the fresh room.              *)
(***************************************************************************)
\* the Makefile is written before the NDK path is looked at
Interrogator_init_checks_late(room, ndk, fault) ==
    LET r == create_file(room, "Makefile", FALSE, MakefileText(ndk), fault)
    IN  IF r.exc = "none" /\ ndk \notin ExistingPaths
        THEN [r EXCEPT !.exc = "RuntimeError"]
        ELSE r

Interrogator_init(room, ndk, fault) ==
    IF ndk \notin ExistingPaths
    THEN [fs |-> room, exc |-> "RuntimeError", wrote |-> {}]
    ELSE create_file(room, "Makefile", FALSE, MakefileText(ndk), fault)

\* create_temporary_directory (lines 130-139) around the body of interrogate
\* (lines 125-127) up to its yield: when the constructor raises, the finally
\* clause removes the room before the exception reaches the caller.
interrogate(fault) ==
    /\ scope = "outside"
    /\ LET r == Interrogator_init(mkdtemp, android_ndk, fault)
       IN  /\ scope' = IF r.exc = "none" THEN "inside" ELSE "left"
           /\ fs' = IF r.exc = "none" THEN r.fs ELSE rmtree(r.fs)
           /\ err' = r.exc
           /\ surfaced' = r.exc
           /\ last' = [NoCall EXCEPT !.op = "interrogate",
                                     !.stage = IF r.exc = "none" THEN "ok" ELSE "init",
                                     !.wrote = r.wrote]
    /\ UNCHANGED <<android_ndk, build_type, android_vars, application_vars,
                   pc, gen, yielded, ran, nops>>

\* leaving the with block: normally, or with the pending exception of the
\* latest call when the caller did not catch it (propagate)
interrogate_exit(propagate) ==
    /\ scope = "inside"
    /\ pc = "idle"
    /\ scope' = "left"
    /\ fs' = rmtree(fs)
    /\ surfaced' = IF propagate THEN err ELSE "none"
    /\ last' = [NoCall EXCEPT !.op = "exit"]
    /\ UNCHANGED <<android_ndk, build_type, android_vars, application_vars,
                   pc, gen, yielded, err, ran, nops>>

(***************************************************************************)
(* The setters, as functions of the interrogator and the disk.             *)
(***************************************************************************)
Self == [build_type |-> build_type, android_vars |-> android_vars,
         application_vars |-> application_vars, fs |-> fs]

\* the assertion of line 85 compiled away
valid_build_type_unchecked(bt) == TRUE

\* the assertion of line 85
valid_build_type(bt) == bt \in BUILD_TYPES

\* the guard without its comparison of build types
android_memo_ignores_type(s, bt, av) ==
    ~s.android_vars.isNone /\ av.isNone

\* the guard of lines 86-88
android_memo(s, bt, av) ==
    s.build_type = bt /\ ~s.android_vars.isNone /\ av.isNone

\* the faults that can meet set_android_vars: those of its create_file when
\* the call gets that far
android_faults(s, bt, av, order) ==
    IF valid_build_type(bt) /\ ~android_memo(s, bt, av) /\ ~RenderRaises(av)
    THEN FaultsOf(AndroidMk(bt, av, order))
    ELSE {NoFault}

\* set_android_vars (lines 83-104)
android_step(s, bt, av, order, fault) ==
    IF ~valid_build_type(bt)
    THEN [s |-> s, exc |-> "AssertionError", wrote |-> {}]
    ELSE IF android_memo(s, bt, av)
    THEN [s |-> s, exc |-> "none", wrote |-> {}]
    ELSE LET t == [s EXCEPT !.build_type = bt, !.android_vars = av]
         IN  IF RenderRaises(av)
             THEN [s |-> t, exc |-> "UnicodeEncodeError", wrote |-> {}]
             ELSE LET r == create_file(t.fs, AndroidPath, TRUE,
                                       AndroidMk(t.build_type, t.android_vars,
                                                 order),
                                       fault)
                  IN  [s |-> [t EXCEPT !.fs = r.fs], exc |-> r.exc,
                       wrote |-> r.wrote]

\* the guard with its first test inverted
application_memo_inverted(s, pv) == s.application_vars.isNone /\ pv.isNone

\* the guard of lines 108-109
application_memo(s, pv) == ~s.application_vars.isNone /\ pv.isNone

\* the faults that can meet set_application_vars
application_faults(s, pv, order) ==
    IF ~application_memo(s, pv) /\ ~RenderRaises(pv)
    THEN FaultsOf(ApplicationMk(pv, order))
    ELSE {NoFault}

\* set_application_vars (lines 106-119)
application_step(s, pv, order, fault) ==
    IF application_memo(s, pv)
    THEN [s |-> s, exc |-> "none", wrote |-> {}]
    ELSE LET t == [s EXCEPT !.application_vars = pv]
         IN  IF RenderRaises(pv)
             THEN [s |-> t, exc |-> "UnicodeEncodeError", wrote |-> {}]
             ELSE LET r == create_file(t.fs, ApplicationPath, TRUE,
                                       ApplicationMk(t.application_vars, order),
                                       fault)
                  IN  [s |-> [t EXCEPT !.fs = r.fs], exc |-> r.exc,
                       wrote |-> r.wrote]

Store(s) ==
    /\ build_type' = s.build_type
    /\ android_vars' = s.android_vars
    /\ application_vars' = s.application_vars
    /\ fs' = s.fs

\* the caller is inside the scope, between calls, and makes one more call
MayCall == scope = "inside" /\ pc = "idle" /\ nops < MaxOps

set_android_vars(bt, av, order, fault) ==
    /\ MayCall
    /\ LET a == android_step(Self, bt, av, order, fault)
       IN  /\ Store(a.s)
           /\ err' = a.exc
           /\ last' = [op |-> "set_android_vars", bt |-> bt,
                       avNone |-> av.isNone, pvNone |-> TRUE,
                       hadVars |-> Truthy(android_vars),
                       stage |-> IF a.exc = "none" THEN "ok" ELSE "android",
                       makeRuns |-> 0, wrote |-> a.wrote]
    /\ ran' = ran \cup {"set_android_vars"}
    /\ nops' = nops + 1
    /\ UNCHANGED <<scope, android_ndk, pc, gen, yielded, surfaced>>

set_application_vars(pv, order, fault) ==
    /\ MayCall
    /\ LET p == application_step(Self, pv, order, fault)
       IN  /\ Store(p.s)
           /\ err' = p.exc
           /\ last' = [op |-> "set_application_vars", bt |-> NoType,
                       avNone |-> TRUE, pvNone |-> pv.isNone,
                       hadVars |-> FALSE,
                       stage |-> IF p.exc = "none" THEN "ok" ELSE "application",
                       makeRuns |-> 0, wrote |-> p.wrote]
    /\ ran' = ran \cup {"set_application_vars"}
    /\ nops' = nops + 1
    /\ UNCHANGED <<scope, android_ndk, pc, gen, yielded, surfaced>>

(***************************************************************************)
(* question (lines 69-81): a generator.  Its body runs when the caller     *)
(* first resumes it: line 73, then line 74, then lines 76-81 up to the     *)
(* first yield; pc is the line the body has reached, and nothing else runs *)
(* until it has yielded or raised.                                         *)
(***************************************************************************)
Raised == [NoGen EXCEPT !.state = "raised"]

\* line 73: self.set_android_vars(build_type, android_vars)
question_android(bt, av, order, fault) ==
    /\ MayCall
    /\ LET a == android_step(Self, bt, av, order, fault)
       IN  /\ Store(a.s)
           /\ err' = a.exc
           /\ pc' = IF a.exc = "none" THEN "line74" ELSE "idle"
           /\ gen' = IF a.exc = "none" THEN NoGen ELSE Raised
           /\ last' = [op |-> "question", bt |-> bt, avNone |-> av.isNone,
                       pvNone |-> TRUE, hadVars |-> Truthy(android_vars),
                       stage |-> IF a.exc = "none" THEN "line73" ELSE "android",
                       makeRuns |-> 0, wrote |-> a.wrote]
    /\ yielded' = <<>>
    /\ ran' = ran \cup {"set_android_vars"}
    /\ nops' = nops + 1
    /\ UNCHANGED <<scope, android_ndk, surfaced>>

\* line 74: self.set_application_vars(application_vars)
question_application(pv, order, fault) ==
    /\ pc = "line74"
    /\ LET p == application_step(Self, pv, order, fault)
       IN  /\ Store(p.s)
           /\ err' = p.exc
           /\ pc' = IF p.exc = "none" THEN "line76" ELSE "idle"
           /\ gen' = IF p.exc = "none" THEN NoGen ELSE Raised
           /\ last' = [last EXCEPT
                         !.pvNone = pv.isNone,
                         !.stage = IF p.exc = "none" THEN "line74"
                                   ELSE "application",
                         !.wrote = last.wrote \cup p.wrote]
    /\ ran' = ran \cup {"set_application_vars"}
    /\ UNCHANGED <<scope, android_ndk, yielded, surfaced, nops>>

\* subprocess.check_output(['make', 'interrogate'], cwd=room) (lines 76-77)
check_output(mk) ==
    IF mk = "fail"
    THEN [runs |-> 1, exc |-> "CalledProcessError", output |-> <<>>]
    ELSE [runs |-> 1, exc |-> "none", output |-> OutputOf(mk)]

\* lines 76-81 up to the first yield
make_step(mk) ==
    LET m == check_output(mk)
    IN  IF m.exc # "none"
        THEN [exc |-> m.exc, stage |-> "make", makeRuns |-> m.runs,
              gen |-> Raised, yielded |-> <<>>]
        ELSE LET g == Advance(Captured(m.output), <<>>)
             IN  [exc |-> g.exc,
                  stage |-> IF g.exc = "none" THEN "ok" ELSE "parse",
                  makeRuns |-> m.runs, gen |-> g.gen, yielded |-> g.yielded]

question_make(mk) ==
    /\ pc = "line76"
    /\ LET q == make_step(mk)
       IN  /\ err' = q.exc
           /\ gen' = q.gen
           /\ yielded' = q.yielded
           /\ last' = [last EXCEPT !.stage = q.stage, !.makeRuns = q.makeRuns]
    /\ pc' = "idle"
    /\ UNCHANGED <<scope, android_ndk, fs, build_type, android_vars,
                   application_vars, surfaced, ran, nops>>

\* the caller resumes the generator for its next pair
next_pair ==
    /\ scope = "inside"
    /\ pc = "idle"
    /\ gen.state \in {"captured", "suspended"}
    /\ LET g == Advance(gen, yielded)
       IN  /\ gen' = g.gen
           /\ yielded' = g.yielded
           /\ err' = g.exc
           /\ last' = [NoCall EXCEPT !.op = "next",
                                     !.stage = IF g.exc = "none" THEN "ok"
                                               ELSE "parse"]
    /\ UNCHANGED <<scope, android_ndk, fs, build_type, android_vars,
                   application_vars, pc, surfaced, ran, nops>>

Next ==
    \/ \E fault \in FaultsOf(MakefileText(android_ndk)) : interrogate(fault)
    \/ \E propagate \in BOOLEAN : interrogate_exit(propagate)
    \/ \E bt \in ArgTypes, av \in ArgVars :
          \E order \in IterOrders(av) :
             \E fault \in android_faults(Self, bt, av, order) :
                set_android_vars(bt, av, order, fault)
    \/ \E pv \in ArgVars :
          \E order \in IterOrders(pv) :
             \E fault \in application_faults(Self, pv, order) :
                set_application_vars(pv, order, fault)
    \/ \E bt \in ArgTypes, av \in ArgVars :
          \E order \in IterOrders(av) :
             \E fault \in android_faults(Self, bt, av, order) :
                question_android(bt, av, order, fault)
    \/ \E pv \in ArgVars :
          \E order \in IterOrders(pv) :
             \E fault \in application_faults(Self, pv, order) :
                question_application(pv, order, fault)
    \/ \E mk \in MakeOutcomes : question_make(mk)
    \/ next_pair

Spec == Init /\ [][Next]_vars

(***************************************************************************)
(* The parsing loop alone, over every captured output up to MaxOutLen.     *)
(***************************************************************************)
RECURSIVE Texts(_)
Texts(n) ==
    IF n = 0 THEN {<<>>}
    ELSE LET shorter == Texts(n - 1)
         IN  shorter \cup {Append(t, c) : t \in shorter, c \in Chars}

\* question(STATIC_LIBRARY) resumed for the first time in a fresh scope, at
\* the point where make has returned its output (line 77)
InitParse ==
    /\ scope = "inside"
    /\ android_ndk \in ExistingPaths
    /\ LET room == Interrogator_init(mkdtemp, android_ndk, NoFault).fs
           a == android_step([build_type |-> NoType, android_vars |-> None,
                              application_vars |-> None, fs |-> room],
                             STATIC_LIBRARY, None, <<>>, NoFault)
           p == application_step(a.s, None, <<>>, NoFault)
       IN  /\ fs = p.s.fs
           /\ build_type = p.s.build_type
           /\ android_vars = p.s.android_vars
           /\ application_vars = p.s.application_vars
           /\ last = [op |-> "question", bt |-> STATIC_LIBRARY,
                      avNone |-> TRUE, pvNone |-> TRUE, hadVars |-> FALSE,
                      stage |-> "line77",
                      makeRuns |-> 1, wrote |-> a.wrote \cup p.wrote]
    /\ pc = "idle"
    /\ \E output \in Texts(MaxOutLen) : gen = Captured(output)
    /\ yielded = <<>>
    /\ err = "none"
    /\ surfaced = "none"
    /\ ran = {"set_android_vars", "set_application_vars"}
    /\ nops = 1

NextParse == next_pair

SpecParse == InitParse /\ [][NextParse]_vars

(***************************************************************************)
(* Vocabulary of the properties.                                           *)
(***************************************************************************)
Exists(file) == file.state # "absent"

\* the step is a call of set_android_vars, directly or as line 73 of question
CallsSetAndroid ==
    nops' = nops + 1 /\ last'.op \in {"set_android_vars", "question"}

\* the step is a call of set_application_vars, directly or as line 74
CallsSetApplication ==
    \/ nops' = nops + 1 /\ last'.op = "set_application_vars"
    \/ pc = "line74" /\ pc' # "line74"

\* the step runs make (lines 76-77 of question)
RunsMake == pc = "line76" /\ pc' = "idle"

\* the file holds the whole text of the stored state, in one of the orders
\* its mapping can be iterated in
AndroidInSync ==
    \E o \in IterOrders(android_vars) :
        fs.Android = AndroidMk(build_type, android_vars, o)
ApplicationInSync ==
    \E o \in IterOrders(application_vars) :
        fs.Application = ApplicationMk(application_vars, o)

\* the assignment lines of a file are exactly the entries of mapping v, each
\* entry once (none when v is None or empty)
HoldsExactly(file, v) ==
    /\ Len(file.assigns) = Cardinality(IF v.isNone THEN {} ELSE v.items)
    /\ \A it \in (IF v.isNone THEN {} ELSE v.items) :
          Cardinality({i \in 1..Len(file.assigns) : file.assigns[i] = it}) = 1

\* C1: set_android_vars(T, vars) that returned, immediately followed by
\* set_android_vars(T, None), leaves jni/Android.mk unwritten and unchanged
\* and the stored build type and variables unchanged.
C1_SecondCallIsNoOp ==
    [][ ( /\ last.op = "set_android_vars"
          /\ last.stage = "ok"
          /\ nops' = nops + 1
          /\ last'.op = "set_android_vars"
          /\ last'.bt = last.bt
          /\ last'.avNone )
        => ( /\ "Android" \notin last'.wrote
             /\ fs'.Android = fs.Android
             /\ build_type' = build_type
             /\ android_vars' = android_vars ) ]_vars

\* C2: once set_application_vars(V) has written a non-empty V, every call of
\* set_application_vars(None), direct or through question, leaves
\* jni/Application.mk unwritten and still holding exactly V, and V stored.
C2_NoneKeepsApplicationMk ==
    [][ ( /\ CallsSetApplication
          /\ last'.pvNone
          /\ Truthy(application_vars)
          /\ ApplicationInSync )
        => ( /\ "Application" \notin last'.wrote
             /\ fs'.Application = fs.Application
             /\ application_vars' = application_vars
             /\ HoldsExactly(fs'.Application, application_vars)
             /\ err' = "none" ) ]_vars

C2_Witness ==
    /\ last.op = "set_application_vars"
    /\ last.pvNone
    /\ last.stage = "ok"
    /\ last.wrote = {}
    /\ Truthy(application_vars)
    /\ ApplicationInSync
    /\ Len(fs.Application.assigns) = 2

\* C3: once the scope has been left the scratch directory does not exist,
\* whatever exception (if any) left the scope with the caller.
C3_LeftScopeHasNoRoom ==
    scope = "left" => ~fs.dir /\ fs = NoDir

C3_Witness ==
    /\ scope = "left"
    /\ surfaced = "CalledProcessError"
    /\ ~fs.dir

\* C4: entering the scope with an NDK path that does not exist raises
\* RuntimeError, writes no file, hands no Interrogator to the caller and
\* leaves no scratch directory.
C4_MissingNdkFailsClean ==
    (android_ndk \notin ExistingPaths /\ scope # "outside")
    => ( /\ scope = "left"
         /\ surfaced = "RuntimeError"
         /\ err = "RuntimeError"
         /\ last.op = "interrogate"
         /\ last.wrote = {}
         /\ fs = NoDir
         /\ build_type = NoType
         /\ nops = 0 )

C4_Witness ==
    /\ android_ndk \notin ExistingPaths
    /\ scope = "left"
    /\ surfaced = "RuntimeError"

\* C5: inside the scope the Makefile written at construction is there and no
\* later call writes it; jni/Android.mk exists only if set_android_vars has
\* run and jni/Application.mk only if set_application_vars has run.
C5_FilesOnlyAfterTheirSetter ==
    scope = "inside"
    => ( /\ fs.dir
         /\ fs.Makefile = MakefileText(android_ndk)
         /\ (last.op # "interrogate" => "Makefile" \notin last.wrote)
         /\ (Exists(fs.Android) => "set_android_vars" \in ran)
         /\ (Exists(fs.Application) => "set_application_vars" \in ran) )

C5_Witness ==
    /\ scope = "inside"
    /\ fs.Makefile = MakefileText(android_ndk)
    /\ Exists(fs.Android)
    /\ ~Exists(fs.Application)
    /\ ran = {"set_android_vars"}
    /\ nops = 2

(***************************************************************************)
(* The pairs the captured output stands for, read off the text by          *)
(* position: a line ends at each newline and at the end of an unterminated *)
(* tail.                                                                   *)
(***************************************************************************)
LineEnds(out) ==
    {i \in 1..Len(out) : out[i] = NL}
    \cup (IF Len(out) > 0 /\ out[Len(out)] # NL THEN {Len(out)} ELSE {})
NumLines(out) == Cardinality(LineEnds(out))
LineEnd(out, k) ==
    CHOOSE e \in LineEnds(out) :
        Cardinality({x \in LineEnds(out) : x < e}) = k - 1
LineStart(out, k) == IF k = 1 THEN 1 ELSE LineEnd(out, k - 1) + 1
EqualsIn(out, k) ==
    {i \in LineStart(out, k)..LineEnd(out, k) : out[i] = "="}
EveryLineHasEquals(out) == \A k \in 1..NumLines(out) : EqualsIn(out, k) # {}
FirstEquals(out, k) ==
    CHOOSE i \in EqualsIn(out, k) : \A j \in EqualsIn(out, k) : i <= j
\* positions of the value's characters that are not whitespace
Solid(out, k) ==
    {i \in (FirstEquals(out, k) + 1)..LineEnd(out, k) : out[i] \notin Whitespace}
ExpectedName(out, k) ==
    SubSeq(out, LineStart(out, k), FirstEquals(out, k) - 1)
ExpectedValue(out, k) ==
    IF Solid(out, k) = {} THEN <<>>
    ELSE SubSeq(out,
                CHOOSE i \in Solid(out, k) : \A j \in Solid(out, k) : i <= j,
                CHOOSE i \in Solid(out, k) : \A j \in Solid(out, k) : i >= j)

\* C6: when every line of the captured output has an '=', the generator
\* yields one pair per line in output order: the text before the line's first
\* '=' untrimmed, and the text after it with surrounding whitespace removed;
\* it raises nothing, and has yielded all lines when it is exhausted.
C6_OnePairPerLine ==
    (gen.state # "none" /\ EveryLineHasEquals(gen.output))
    => ( /\ gen.state # "raised"
         /\ err = "none"
         /\ Len(yielded) <= NumLines(gen.output)
         /\ \A k \in 1..Len(yielded) :
               yielded[k] = <<ExpectedName(gen.output, k),
                              ExpectedValue(gen.output, k)>>
         /\ (gen.state = "done" => Len(yielded) = NumLines(gen.output)) )

C6_Witness ==
    /\ gen.state = "done"
    /\ gen.output = <<"A", " ", "=", " ", "=">>
    /\ yielded = << << <<"A", " ">>, <<"=">> >> >>

C6_WitnessTwoLines ==
    /\ gen.state = "done"
    /\ gen.output = <<"=", " ", "A", NL, "=">>
    /\ yielded = << << <<>>, <<"A">> >>, << <<>>, <<>> >> >>

\* C7: set_android_vars, direct or as line 73 of question, given a build type
\* outside BUILD_TYPES raises AssertionError and changes neither the stored
\* build type and mappings nor the disk; question ends there, before make.
C7_BadTypeChangesNothing ==
    [][ (CallsSetAndroid /\ last'.bt \notin BUILD_TYPES)
        => ( /\ err' = "AssertionError"
             /\ fs' = fs
             /\ build_type' = build_type
             /\ android_vars' = android_vars
             /\ application_vars' = application_vars
             /\ last'.wrote = {}
             /\ last'.makeRuns = 0
             /\ pc' = "idle"
             /\ (last'.op = "question" => gen'.state = "raised") ) ]_vars

C7_Witness ==
    /\ last.op = "question"
    /\ last.bt = BadType
    /\ err = "AssertionError"
    /\ AndroidInSync
    /\ Truthy(android_vars)
    /\ last.makeRuns = 0

\* C8: whenever question has run make, it ran it once, with Makefile,
\* jni/Android.mk and jni/Application.mk all written and Android.mk including
\* the build type asked for; if make failed no pair was yielded.
C8_MakeSeesAllThreeFiles ==
    (last.op = "question" /\ last.makeRuns > 0)
    => ( /\ last.makeRuns = 1
         /\ fs.Makefile.state = "written"
         /\ fs.Android.state = "written"
         /\ fs.Application.state = "written"
         /\ fs.Android.include = last.bt
         /\ (last.stage = "make" => yielded = <<>> /\ gen.state = "raised") )

\* C9: whenever jni/Android.mk exists it includes the stored build type and
\* its assignment lines are exactly the stored android_vars; whenever
\* jni/Application.mk exists its lines are exactly the stored
\* application_vars.
C9_FilesMirrorStoredState ==
    scope = "inside"
    => ( /\ Exists(fs.Android)
            => ( /\ fs.Android.include = build_type
                 /\ HoldsExactly(fs.Android, android_vars) )
         /\ Exists(fs.Application)
            => HoldsExactly(fs.Application, application_vars) )

\* C10: with V stored and written, a call of set_android_vars without
\* variables that returns keeps V in jni/Android.mk if it keeps the build
\* type; otherwise the file is left without assignment lines and no V is
\* stored, so that switching back without variables restores nothing.
C10_VarsSurviveOnlySameType ==
    [][ ( /\ CallsSetAndroid
          /\ last'.avNone
          /\ last'.bt \in BUILD_TYPES
          /\ err' = "none"
          /\ (build_type = NoType \/ AndroidInSync) )
        => IF last'.bt = build_type /\ Truthy(android_vars)
           THEN /\ "Android" \notin last'.wrote
                /\ fs'.Android = fs.Android
                /\ android_vars' = android_vars
                /\ HoldsExactly(fs'.Android, android_vars)
           ELSE /\ fs'.Android.state = "written"
                /\ fs'.Android.assigns = <<>>
                /\ fs'.Android.include = last'.bt
                /\ ~Truthy(android_vars')
                /\ (last'.bt # build_type
                       => android_vars'.isNone /\ "Android" \in last'.wrote) ]_vars

C10_Witness ==
    /\ last.op = "question"
    /\ last.avNone
    /\ last.hadVars
    /\ err = "none"
    /\ android_vars.isNone
    /\ fs.Android = AndroidMk(last.bt, None, <<>>)
    /\ fs.Android.assigns = <<>>

====
